---- MODULE Spec2Model ----
(***************************************************************************)
(* Model of the physics workers of the solar-system simulation:            *)
(*   src/unnamed/part_000  the asteroid-belt integrator (Sun gravity plus  *)
(*                         short-range repulsion), variant "belt";         *)
(*   src/unnamed/part_001  the basic planet integrator, variant "planet";  *)
(* and of the driver of the worker in src/scene.js (createScene and its    *)
(* render-loop callback).                                                  *)
(*                                                                         *)
(* JavaScript numbers are modelled as exact rationals n/d in lowest terms  *)
(* together with the IEEE-754 special values: d = 0 encodes +Infinity      *)
(* (n = 1), -Infinity (n = -1) and NaN (n = 0).  Rounding of finite        *)
(* results is not modelled, except in Math.sqrt, whose irrational results  *)
(* are rounded up to a multiple of 1/SqrtPrec.  The sign of zero is not    *)
(* modelled: the only divisors that can be zero are a sum of squares       *)
(* (always +0) and a mass taken from the input.                            *)
(*                                                                         *)
(* A JavaScript value that may be undefined/null is modelled as a sequence *)
(* of length at most one: None is undefined/null, Some(x) is the value x.  *)
(***************************************************************************)
EXTENDS Integers, Sequences, FiniteSets, TLC

\* ------------------------------------------------------------------ bounds
\* Number of messages the worker processes in one behaviour.
MaxMsgs == 4
\* Largest numerator/denominator of a body's position or velocity component
\* from which a further tick is explored (keeps the exact arithmetic inside
\* the model checker's integers).
MaxNum == 1000
\* Math.sqrt of a non-square is rounded up to a multiple of 1/SqrtPrec.
SqrtPrec == 10
\* Number of frames the render loop runs in one behaviour.
MaxFrames == 4

\* ------------------------------------------------------- JavaScript numbers
Abs(i) == IF i < 0 THEN -i ELSE i
Sgn(i) == IF i < 0 THEN -1 ELSE IF i > 0 THEN 1 ELSE 0

RECURSIVE GCD(_, _)
GCD(a, b) == IF b = 0 THEN a ELSE GCD(b, a % b)

\* The rational n/d (d # 0) in lowest terms with a positive denominator.
Reduced(n, d, g) ==
    IF d < 0 THEN [n |-> (-n) \div g, d |-> (-d) \div g]
    ELSE [n |-> n \div g, d |-> d \div g]
R(n, d) == Reduced(n, d, GCD(Abs(n), Abs(d)))

I(i)   == [n |-> i, d |-> 1]
Zero   == I(0)
One    == I(1)
NaN    == [n |-> 0, d |-> 0]
Inf(s) == [n |-> s, d |-> 0]

IsNaN(a)    == a.d = 0 /\ a.n = 0
IsInf(a)    == a.d = 0 /\ a.n # 0
IsFinite(a) == a.d > 0

\* a + b for finite a, b, with g the greatest common divisor of the denominators
AddOver(a, b, g) ==
    R(a.n * (b.d \div g) + b.n * (a.d \div g), (a.d \div g) * b.d)

\* a + b
Add(a, b) ==
    IF IsNaN(a) \/ IsNaN(b) THEN NaN
    ELSE IF IsInf(a) /\ IsInf(b) THEN (IF a.n = b.n THEN a ELSE NaN)
    ELSE IF IsInf(a) THEN a
    ELSE IF IsInf(b) THEN b
    ELSE AddOver(a, b, GCD(a.d, b.d))

\* -a
Neg(a) == [n |-> -a.n, d |-> a.d]

\* a - b
Sub(a, b) == Add(a, Neg(b))

\* a * b for finite a, b, cancelling g1 = gcd(a.n, b.d) and g2 = gcd(b.n, a.d)
MulOver(a, b, g1, g2) ==
    R((a.n \div g1) * (b.n \div g2), (a.d \div g2) * (b.d \div g1))

\* a * b
Mul(a, b) ==
    IF IsNaN(a) \/ IsNaN(b) THEN NaN
    ELSE IF IsInf(a) \/ IsInf(b)
         THEN (IF a.n = 0 \/ b.n = 0 THEN NaN ELSE Inf(Sgn(a.n) * Sgn(b.n)))
    ELSE MulOver(a, b, GCD(Abs(a.n), b.d), GCD(Abs(b.n), a.d))

\* a / b
Div(a, b) ==
    IF IsNaN(a) \/ IsNaN(b) THEN NaN
    ELSE IF IsInf(a) THEN (IF IsInf(b) THEN NaN
                           ELSE Inf(a.n * (IF b.n < 0 THEN -1 ELSE 1)))
    ELSE IF IsInf(b) THEN Zero
    ELSE IF b.n = 0 THEN (IF a.n = 0 THEN NaN ELSE Inf(Sgn(a.n)))
    ELSE Mul(a, R(b.d, b.n))

\* a < b and a > b (false when either operand is NaN)
Lt(a, b) ==
    /\ ~IsNaN(a)
    /\ ~IsNaN(b)
    /\ IF IsInf(a) \/ IsInf(b)
       THEN (IF IsInf(a) /\ IsInf(b) THEN a.n < b.n
             ELSE IF IsInf(a) THEN a.n < 0 ELSE b.n > 0)
       ELSE Sub(a, b).n < 0
Gt(a, b) == Lt(b, a)

\* Math.max(a, b)
MathMax(a, b) ==
    IF IsNaN(a) \/ IsNaN(b) THEN NaN ELSE IF Lt(a, b) THEN b ELSE a

\* Math.min(a, b)
MathMin(a, b) ==
    IF IsNaN(a) \/ IsNaN(b) THEN NaN ELSE IF Lt(b, a) THEN b ELSE a

\* Largest r in lo..hi with r * r <= n (lo * lo <= n is required).
RECURSIVE ISqrtIn(_, _, _)
ISqrtIn(n, lo, hi) ==
    IF lo >= hi THEN lo
    ELSE IF ((lo + hi + 1) \div 2) * ((lo + hi + 1) \div 2) <= n
         THEN ISqrtIn(n, (lo + hi + 1) \div 2, hi)
         ELSE ISqrtIn(n, lo, ((lo + hi + 1) \div 2) - 1)

\* floor(sqrt(n)) for a natural n
ISqrt(n) == ISqrtIn(n, 0, IF n < 46340 THEN n ELSE 46340)

\* sqrt(a) for a finite a >= 0, with rn and rd the integer square roots of
\* its numerator and denominator: exact for a square, else rounded up
SqrtOf(a, rn, rd) ==
    IF rn * rn = a.n /\ rd * rd = a.d THEN R(rn, rd)
    ELSE R(ISqrt((a.n * SqrtPrec * SqrtPrec) \div a.d) + 1, SqrtPrec)

\* Math.sqrt(a)
MathSqrt(a) ==
    IF IsNaN(a) \/ a.n < 0 THEN NaN
    ELSE IF IsInf(a) THEN a
    ELSE SqrtOf(a, ISqrt(a.n), ISqrt(a.d))

\* !x for a number x: 0 and NaN are falsy
Falsy(a) == IsNaN(a) \/ (a.d > 0 /\ a.n = 0)

\* ------------------------------------------------------------ maybe-values
None    == <<>>
Some(x) == <<x>>
Val(m)  == m[1]

\* ------------------------------------------------------------ constants
\* part_000:4 / part_001:4   const G = 0.1
G == R(1, 10)
\* part_000:5   const SUN_REPULSION_DISTANCE_SQ = 1.5 * 1.5
SUN_REPULSION_DISTANCE_SQ == Mul(R(3, 2), R(3, 2))
\* part_000:6   const SUN_REPULSION_STRENGTH = 0.05
SUN_REPULSION_STRENGTH == R(5, 100)
\* part_000:47 / part_001:42   the literal 0.1 in Math.max(distSq, 0.1)
DIST_FLOOR == R(1, 10)

\* ------------------------------------------------------------------ vec3
vec3_create == [x |-> Zero, y |-> Zero, z |-> Zero]
vec3_subtract(a, b) == [x |-> Sub(a.x, b.x), y |-> Sub(a.y, b.y), z |-> Sub(a.z, b.z)]
vec3_add(a, b) == [x |-> Add(a.x, b.x), y |-> Add(a.y, b.y), z |-> Add(a.z, b.z)]
vec3_scale(v, s) == [x |-> Mul(v.x, s), y |-> Mul(v.y, s), z |-> Mul(v.z, s)]
vec3_lengthSq(v) == Add(Add(Mul(v.x, v.x), Mul(v.y, v.y)), Mul(v.z, v.z))
vec3_length(v) == MathSqrt(vec3_lengthSq(v))
NormalizeBy(v, len) ==
    IF Gt(len, Zero) THEN vec3_scale(v, Div(One, len)) ELSE vec3_create
vec3_normalize(v) == NormalizeBy(v, vec3_length(v))

\* ------------------------------------------------- part_000: belt worker
\* A worker's run of one message yields the new module state (bodies, sun),
\* the messages it posted (out) and whether the handler threw (threw).
Outcome(bs, s, out, threw) == [bodies |-> bs, sun |-> s, out |-> out, threw |-> threw]

\* bodies.forEach(b => b.force = vec3.create())          (init, and tick step 1)
ResetForces(list) ==
    [i \in 1..Len(list) |-> [list[i] EXCEPT !.force = Some(vec3_create)]]

\* Init000 answering the init with an update
Init000_Emits(w, payload) ==
    IF payload.bodies = None
    THEN Outcome(None, payload.sun, <<>>, TRUE)
    ELSE Outcome(Some(ResetForces(Val(payload.bodies))), payload.sun,
                 <<[type |-> "update", bodies |-> <<>>]>>, FALSE)

\* Init000 adding the supplied bodies to the ones it holds
Init000_Appends(w, payload) ==
    IF payload.bodies = None
    THEN Outcome(None, payload.sun, <<>>, TRUE)
    ELSE Outcome(Some(ResetForces((IF w.bodies = None THEN <<>> ELSE Val(w.bodies))
                                  \o Val(payload.bodies))),
                 payload.sun, <<>>, FALSE)

\* if (type === 'init') { ... }
Init000(w, payload) ==
    IF payload.bodies = None
    THEN \* bodies.forEach on undefined: TypeError after both assignments
         Outcome(None, payload.sun, <<>>, TRUE)
    ELSE Outcome(Some(ResetForces(Val(payload.bodies))), payload.sun, <<>>, FALSE)

\* Skip000 without the test of bodies.length
Skip000_IgnoresEmpty(w, dt) ==
    \/ w.sun = None
    \/ dt = None
    \/ Falsy(Val(dt))

\* Skip000 with `dt === undefined || isNaN(dt)` for `!dt`
Skip000_ZeroRuns(w, dt) ==
    \/ w.sun = None
    \/ Len(Val(w.bodies)) = 0
    \/ dt = None
    \/ IsNaN(Val(dt))

\* if (!sun || bodies.length === 0 || !dt) return;   TRUE when the tick returns
\* here (bodies is an array wherever this is evaluated past !sun)
Skip000(w, dt) ==
    \/ w.sun = None
    \/ Len(Val(w.bodies)) = 0
    \/ dt = None
    \/ Falsy(Val(dt))

\* GravForceMag without the division by the squared distance
GravForceMag_NoFalloff(sun, body, safeDistSq) ==
    Mul(Mul(G, sun.mass), body.mass)

\* const gravForceMag = G * sun.mass * body.mass / safeDistSq;
GravForceMag(sun, body, safeDistSq) ==
    Div(Mul(Mul(G, sun.mass), body.mass), safeDistSq)

\* const repulsionMag = SUN_REPULSION_STRENGTH * body.mass * (SUN_REPULSION_DISTANCE_SQ / distSq);
RepulsionMag(body, distSq) ==
    Mul(Mul(SUN_REPULSION_STRENGTH, body.mass), Div(SUN_REPULSION_DISTANCE_SQ, distSq))

\* Repulse000 with the sign of the push lost
Repulse000_Pull(body, distSq, gravForceDir, force) ==
    IF Lt(distSq, SUN_REPULSION_DISTANCE_SQ)
    THEN vec3_add(force, vec3_scale(gravForceDir, RepulsionMag(body, distSq)))
    ELSE force

\* if (distSq < SUN_REPULSION_DISTANCE_SQ) { body.force = body.force + dir * -repulsionMag }
Repulse000(body, distSq, gravForceDir, force) ==
    IF Lt(distSq, SUN_REPULSION_DISTANCE_SQ)
    THEN vec3_add(force, vec3_scale(gravForceDir, Neg(RepulsionMag(body, distSq))))
    ELSE force

\* the body of step 2a, given toSun's squared length and direction
ForceFrom000(sun, body, distSq, gravForceDir) ==
    Repulse000(body, distSq, gravForceDir,
        vec3_add(Val(body.force),
                 vec3_scale(gravForceDir,
                            GravForceMag(sun, body, MathMax(distSq, DIST_FLOOR)))))

\* the body of step 2a, given toSun
ForceAlong000(sun, body, toSun) ==
    ForceFrom000(sun, body, vec3_lengthSq(toSun), vec3_normalize(toSun))

\* step 2a for one body: its force after gravity and repulsion
Accumulate000(sun, body) ==
    [body EXCEPT !.force =
        Some(ForceAlong000(sun, body, vec3_subtract(sun.position, body.position)))]

\* body.position = vec3.add(body.position, vec3.scale(body.velocity, dt));
Advance(body, velocity, dt) ==
    [body EXCEPT !.velocity = velocity,
                 !.position = vec3_add(body.position, vec3_scale(velocity, dt))]

\* Integrate000 with the two assignments of step 3 in the other order
Integrate000_PositionFirst(body, dt) ==
    [body EXCEPT
        !.position = vec3_add(body.position, vec3_scale(body.velocity, dt)),
        !.velocity = vec3_add(body.velocity,
                        vec3_scale(vec3_scale(Val(body.force), Div(One, body.mass)), dt))]

\* step 3 for one body: the velocity first, then the position from the new velocity
Integrate000(body, dt) ==
    Advance(body,
            vec3_add(body.velocity,
                     vec3_scale(vec3_scale(Val(body.force), Div(One, body.mass)), dt)),
            dt)

\* UpdateEntries listing the bodies last to first
UpdateEntries_Reversed(list) ==
    [i \in 1..Len(list) |->
        [id |-> list[Len(list) + 1 - i].id,
         position |-> list[Len(list) + 1 - i].position,
         velocity |-> list[Len(list) + 1 - i].velocity]]

\* bodies.map(b => ({ id: b.id, position: b.position, velocity: b.velocity }))
UpdateEntries(list) ==
    [i \in 1..Len(list) |->
        [id |-> list[i].id, position |-> list[i].position, velocity |-> list[i].velocity]]

\* PostUpdate with the attractor listed after the bodies
PostUpdate_WithSun(w, list) ==
    Outcome(Some(list), w.sun,
            <<[type |-> "update",
               bodies |-> Append(UpdateEntries(list),
                                 [id |-> Val(w.sun).id,
                                  position |-> Val(w.sun).position,
                                  velocity |-> Val(w.sun).velocity])]>>,
            FALSE)

\* self.postMessage({ type: 'update', payload: { bodies: ... } }) after the loops
PostUpdate(w, list) ==
    Outcome(Some(list), w.sun, <<[type |-> "update", bodies |-> UpdateEntries(list)]>>, FALSE)

\* Step000 with every body moved by the force on the first body of the list
Step000_Coupled(sun, list, dt) ==
    [i \in 1..Len(list) |->
        Integrate000([ResetForces(list)[i] EXCEPT
                         !.force = Accumulate000(sun, ResetForces(list)[1]).force],
                     dt)]

\* steps 1 to 3 of a tick over the whole list
Step000(sun, list, dt) ==
    [i \in 1..Len(list) |->
        Integrate000(Accumulate000(sun, ResetForces(list)[i]), dt)]

\* else if (type === 'tick') { ... }
Tick000(w, payload) ==
    IF w.sun = None THEN Outcome(w.bodies, w.sun, <<>>, FALSE)
    ELSE IF w.bodies = None
    THEN \* bodies.length on undefined: TypeError
         Outcome(w.bodies, w.sun, <<>>, TRUE)
    ELSE IF Skip000(w, payload.dt) THEN Outcome(w.bodies, w.sun, <<>>, FALSE)
    ELSE PostUpdate(w, Step000(Val(w.sun), Val(w.bodies), Val(payload.dt)))

\* self.onmessage of part_000
OnMessage000(w, m) ==
    IF m.type = "init" THEN Init000(w, m.payload)
    ELSE IF m.type = "tick" THEN Tick000(w, m.payload)
    ELSE Outcome(w.bodies, w.sun, <<>>, FALSE)

\* ----------------------------------------------- part_001: planet worker
\* if (type === 'init') { bodies = payload.planets; sun = payload.sun; }
Init001(w, payload) == Outcome(payload.planets, payload.sun, <<>>, FALSE)

\* if (!sun || bodies.length === 0 || !dt) return;
Skip001(w, dt) ==
    \/ w.sun = None
    \/ Len(Val(w.bodies)) = 0
    \/ dt = None
    \/ Falsy(Val(dt))

\* first loop for one body: the position from the current velocity
Move001(body, dt) ==
    [body EXCEPT !.position = vec3_add(body.position, vec3_scale(body.velocity, dt))]

\* const force = vec3.scale(forceDir, forceMag), given toSun
ForceAlong001(sun, body, toSun) ==
    vec3_scale(vec3_normalize(toSun),
               Div(Mul(Mul(G, sun.mass), body.mass),
                   MathMax(vec3_lengthSq(toSun), DIST_FLOOR)))

\* the force of the sun on one body (no repulsion)
Force001(sun, body) ==
    ForceAlong001(sun, body, vec3_subtract(sun.position, body.position))

\* second loop for one body: the velocity from the force at the moved position
Accelerate001(sun, body, dt) ==
    [body EXCEPT !.velocity =
        vec3_add(body.velocity,
                 vec3_scale(vec3_scale(Force001(sun, body), Div(One, body.mass)), dt))]

\* both loops of a tick over the whole list
Step001(sun, list, dt) ==
    [i \in 1..Len(list) |-> Accelerate001(sun, Move001(list[i], dt), dt)]

\* else if (type === 'tick') { ... }
Tick001(w, payload) ==
    IF w.sun = None THEN Outcome(w.bodies, w.sun, <<>>, FALSE)
    ELSE IF w.bodies = None
    THEN \* bodies.length on undefined: TypeError
         Outcome(w.bodies, w.sun, <<>>, TRUE)
    ELSE IF Skip001(w, payload.dt) THEN Outcome(w.bodies, w.sun, <<>>, FALSE)
    ELSE PostUpdate(w, Step001(Val(w.sun), Val(w.bodies), Val(payload.dt)))

\* self.onmessage of part_001
OnMessage001(w, m) ==
    IF m.type = "init" THEN Init001(w, m.payload)
    ELSE IF m.type = "tick" THEN Tick001(w, m.payload)
    ELSE Outcome(w.bodies, w.sun, <<>>, FALSE)

\* ----------------------------------------------------- handlers, in halves
\* self.onmessage of part_000 as two consecutive pieces of the same synchronous
\* function, for the executions in which the driver's thread runs while the
\* handler does.

\* part_000 up to the end of the force loop (init: the two assignments); the
\* bodies and the attractor as the piece leaves them
FirstHalf000(w, m) ==
    IF m.type = "init" THEN [bodies |-> m.payload.bodies, sun |-> m.payload.sun]
    ELSE IF m.type = "tick" /\ w.sun # None /\ w.bodies # None /\ ~Skip000(w, m.payload.dt)
    THEN [bodies |-> Some([i \in 1..Len(Val(w.bodies)) |->
                             Accumulate000(Val(w.sun), ResetForces(Val(w.bodies))[i])]),
          sun |-> w.sun]
    ELSE [bodies |-> w.bodies, sun |-> w.sun]

\* part_000 from there to its end (init: the forEach; tick: the integration
\* loop and postMessage)
SecondHalf000(w, m) ==
    IF m.type = "init"
    THEN IF w.bodies = None THEN Outcome(None, w.sun, <<>>, TRUE)
         ELSE Outcome(Some(ResetForces(Val(w.bodies))), w.sun, <<>>, FALSE)
    ELSE IF m.type # "tick" \/ w.sun = None THEN Outcome(w.bodies, w.sun, <<>>, FALSE)
    ELSE IF w.bodies = None THEN Outcome(w.bodies, w.sun, <<>>, TRUE)
    ELSE IF Skip000(w, m.payload.dt) THEN Outcome(w.bodies, w.sun, <<>>, FALSE)
    ELSE PostUpdate(w, [i \in 1..Len(Val(w.bodies)) |->
                          Integrate000(Val(w.bodies)[i], Val(m.payload.dt))])

\* ------------------------------------------------------------------ inputs
V(x, y, z) == [x |-> x, y |-> y, z |-> z]

\* a body as the driver supplies it: { id, mass, position, velocity }
Body(id, mass, position, velocity) ==
    [id |-> id, mass |-> mass, position |-> position, velocity |-> velocity,
     force |-> None]

\* inside the repulsion radius, at rest
bodyA == Body("a", One, V(One, Zero, Zero), vec3_create)
\* exactly at the attractor's position
bodyB == Body("b", I(2), vec3_create, V(Zero, R(1, 2), Zero))
\* outside the repulsion radius, moving across the line to the attractor
bodyP == Body("p", One, V(I(5), Zero, Zero), V(Zero, Zero, I(-1)))

\* a body without mass, outside the repulsion radius, at rest
bodyZ == Body("z", Zero, V(Zero, I(2), Zero), vec3_create)

BodyLists == { <<>>, <<bodyA>>, <<bodyB, bodyA>>, <<bodyP>>, <<bodyZ>> }

\* { id: 'sun', mass, position, velocity } (scene.js:27 has mass 1000)
Sun(mass) ==
    [id |-> "sun", mass |-> mass, position |-> vec3_create, velocity |-> vec3_create]
Suns == { Sun(One), Sun(I(1000)) }

NoPayload == [bodies |-> None, planets |-> None, sun |-> None, dt |-> None]

InitPayloads ==
    \* the documented shape { bodies, sun }
    { [NoPayload EXCEPT !.bodies = Some(l), !.sun = Some(s)] : l \in BodyLists, s \in Suns }
    \* the shape part_001 reads: { planets, sun }
    \cup { [NoPayload EXCEPT !.planets = Some(l), !.sun = Some(s)] :
             l \in { <<bodyA>>, <<bodyB, bodyA>> }, s \in Suns }
    \* fields missing
    \cup { NoPayload, [NoPayload EXCEPT !.bodies = Some(<<bodyA>>)] }

Dts == { None, Some(Zero), Some(R(-1, 2)), Some(R(1, 2)), Some(R(1, 10)) }

TickPayloads == { [NoPayload EXCEPT !.dt = dt] : dt \in Dts }

\* ------------------------------------------------------------------ driver
\* createScene of scene.js: the data it builds and the messages it posts.
sunMass == I(1000)
\* const sunData = { id: 'sun', mass: sunMass, position: ..., velocity: ... }
sunData == Sun(sunMass)
INITIAL_SPEED_BOOST_FACTOR == R(101, 100)

\* the velocity given to an asteroid placed at initialPosition
InitialVelocityFrom(rVec, rMag) ==
    IF Gt(rMag, R(1, 100))
    THEN vec3_scale(vec3_normalize(V(Neg(rVec.z), Zero, rVec.x)),
                    Mul(MathSqrt(Div(Mul(G, sunMass), rMag)), INITIAL_SPEED_BOOST_FACTOR))
    ELSE vec3_create
InitialVelocityAlong(rVec) == InitialVelocityFrom(rVec, vec3_length(rVec))
InitialVelocity(initialPosition) ==
    InitialVelocityAlong(V(initialPosition.x, Zero, initialPosition.z))

\* const id = `asteroid_${i}`;
AsteroidId(i) == "asteroid_" \o ToString(i)

\* one pass of the generation loop: asteroid i of the given size at
\* initialPosition, as pushed to asteroidPhysicsData
AsteroidData(i, initialPosition, size) ==
    [id |-> AsteroidId(i), mass |-> Mul(Mul(Mul(size, size), size), I(5)),
     position |-> initialPosition, velocity |-> InitialVelocity(initialPosition),
     force |-> None]

\* the belt the model follows: two asteroids, at radius 36 and angle 0 and at
\* radius 40 and angle 3*pi/2, both in the plane of the belt
GeneratedAsteroids ==
    << AsteroidData(0, V(I(36), Zero, Zero), R(1, 10)),
       AsteroidData(1, V(Zero, Zero, I(-40)), R(1, 20)) >>

\* asteroidMeshes[id] = mesh, with mesh.position the initial position
GeneratedMeshes ==
    [id \in {GeneratedAsteroids[i].id : i \in 1..Len(GeneratedAsteroids)} |->
        (CHOOSE b \in {GeneratedAsteroids[i] : i \in 1..Len(GeneratedAsteroids)} :
            b.id = id).position]

\* physicsWorker.postMessage({ type: 'init', payload: { bodies, sun } })
InitMessage(data) ==
    [type |-> "init",
     payload |-> [NoPayload EXCEPT !.bodies = Some(data), !.sun = Some(sunData)]]

\* StableDeltaTime without the clamp
StableDeltaTime_Unclamped(deltaTime) == deltaTime

\* const stableDeltaTime = Math.min(deltaTime, 0.05);
StableDeltaTime(deltaTime) == MathMin(deltaTime, R(5, 100))

\* const deltaTime = (currentTime - lastTime) / 1000.0;
DeltaTime(currentTime, last) == Div(I(currentTime - last), I(1000))

\* physicsWorker.postMessage({ type: 'tick', payload: { dt: stableDeltaTime } })
TickMessage(deltaTime) ==
    [type |-> "tick",
     payload |-> [NoPayload EXCEPT !.dt = Some(StableDeltaTime(deltaTime))]]

\* milliseconds that pass between two frames: none (two frames within the
\* resolution of the clock), a frame at 50 Hz, a slow frame
Elapsed == {0, 20, 100}
\* performance.now() when the render loop is registered
LoadTimes == {250}

\* the entry of update an onmessage pass leaves in force for id: the last one
LastEntryFor(entries, id) ==
    entries[CHOOSE k \in 1..Len(entries) :
                /\ entries[k].id = id
                /\ \A j \in (k + 1)..Len(entries) : entries[j].id # id]
Mentions(entries, id) == \E k \in 1..Len(entries) : entries[k].id = id

\* payload.bodies.forEach(bodyUpdate => { const mesh = asteroidMeshes[bodyUpdate.id];
\*     if (mesh) { mesh.position.x = ...; ... } })
MovedMeshes(meshes, entries) ==
    [id \in DOMAIN meshes |->
        IF Mentions(entries, id) THEN LastEntryFor(entries, id).position ELSE meshes[id]]

\* UpdatedData taking the k-th entry for the k-th asteroid
UpdatedData_ByIndex(meshes, data, entries) ==
    [i \in 1..Len(data) |->
        IF i <= Len(entries) THEN [data[i] EXCEPT !.velocity = entries[i].velocity]
        ELSE data[i]]

\* ... if (mesh) { const pData = asteroidPhysicsData.find(p => p.id === bodyUpdate.id);
\*                 if (pData) pData.velocity = bodyUpdate.velocity; }
\* find returns the first entry with the id
UpdatedData(meshes, data, entries) ==
    [i \in 1..Len(data) |->
        IF /\ data[i].id \in DOMAIN meshes
           /\ Mentions(entries, data[i].id)
           /\ \A j \in 1..(i - 1) : data[j].id # data[i].id
        THEN [data[i] EXCEPT !.velocity = LastEntryFor(entries, data[i].id).velocity]
        ELSE data[i]]

\* ---------------------------------------------------------------------- AR
\* The AR handlers of main.js; scene.js:239-488 holds the later version of the
\* same file, with plane markers and a status line.  a is the page: the
\* variables of the file and the objects they refer to.
MathAbs(x) == IF Lt(x, Zero) THEN Neg(x) ELSE x

\* !anchoredPlaneId: null is falsy, and so is the number 0
NotAnchoredId(id) == id = None \/ Val(id) = 0

\* plane.polygonDefinition.length > 0 && Math.abs(plane.normal.y) > 0.9
HorizontalMain(plane) == plane.polygonLength > 0 /\ Gt(MathAbs(plane.normalY), R(9, 10))

\* planeDetector.onPlaneAddedObservable.add((plane) => { ... })      main.js
PlaneAddedMain(a, plane) ==
    IF NotAnchoredId(a.anchoredPlaneId) /\ HorizontalMain(plane)
    THEN [a EXCEPT !.rootNode.position = plane.position,
                   !.anchoredPlaneId = Some(plane.id)]
    ELSE a

\* planeDetector.onPlaneUpdatedObservable.add(...): its body is commented out
PlaneUpdatedMain(a, plane) == a

\* planeDetector.onPlaneRemovedObservable.add((plane) => { ... })    main.js
PlaneRemovedMain(a, plane) ==
    IF Some(plane.id) = a.anchoredPlaneId THEN [a EXCEPT !.anchoredPlaneId = None] ELSE a

\* the handler without skyboxMesh.setEnabled(false) on IN_XR
StateChangedMain_KeepsSkybox(a, state) ==
    IF state = "IN_XR"
    THEN [a EXCEPT !.enterARButton.display = "none",
                   !.exitARButton.display = "block",
                   !.scaleSlider.display = "block",
                   !.rootNode.position = V(Zero, I(-1000), Zero)]
    ELSE IF state = "NOT_IN_XR"
    THEN [a EXCEPT !.enterARButton.display = "block",
                   !.exitARButton.display = "none",
                   !.scaleSlider.display = "none",
                   !.skyboxMesh.enabled = TRUE,
                   !.rootNode = [position |-> vec3_create, scaling |-> One,
                                 rotationQuaternion |-> None],
                   !.scaleSlider.value = One,
                   !.anchoredPlaneId = None]
    ELSE a

\* xrHelper.baseExperience.onStateChangedObservable.add((state) => { ... })
StateChangedMain(a, state) ==
    IF state = "IN_XR"
    THEN [a EXCEPT !.enterARButton.display = "none",
                   !.exitARButton.display = "block",
                   !.scaleSlider.display = "block",
                   !.skyboxMesh.enabled = FALSE,
                   !.rootNode.position = V(Zero, I(-1000), Zero)]
    ELSE IF state = "NOT_IN_XR"
    THEN [a EXCEPT !.enterARButton.display = "block",
                   !.exitARButton.display = "none",
                   !.scaleSlider.display = "none",
                   !.skyboxMesh.enabled = TRUE,
                   !.rootNode = [position |-> vec3_create, scaling |-> One,
                                 rotationQuaternion |-> None],
                   !.scaleSlider.value = One,
                   !.anchoredPlaneId = None]
    ELSE a

\* scaleSlider.oninput = () => { ... }                               main.js
SliderInputMain(a) ==
    IF a.state = "IN_XR" THEN [a EXCEPT !.rootNode.scaling = a.scaleSlider.value] ELSE a

\* x.toFixed(1) of a finite x >= 0: the tenths rounded to the nearest, half up
TenthsOf(x) == (20 * x.n + x.d) \div (2 * x.d)
ToFixed1(x) == ToString(TenthsOf(x) \div 10) \o "." \o ToString(TenthsOf(x) % 10)

\* rootNode.position.copyFrom(plane.center); rootNode.position.y += 0.01;
Elevated(center) == [center EXCEPT !.y = Add(center.y, R(1, 100))]

\* if (!anchoredPlaneId && Math.abs(plane.normal.y) > 0.9) { ... }  scene.js:345
AnchorScene(a, plane) ==
    IF NotAnchoredId(a.anchoredPlaneId) /\ Gt(MathAbs(plane.normalY), R(9, 10))
    THEN [a EXCEPT !.rootNode.position = Elevated(plane.center),
                   !.anchoredPlaneId = Some(plane.id),
                   !.arStatus.textContent = "Surface found! Use slider to adjust size.",
                   !.planeMaterial = "green",
                   !.scaleContainer.display = "block"]
    ELSE a

\* the id -> marker position map with id set to position
WithMarker(markers, id, position) ==
    [k \in DOMAIN markers \cup {id} |-> IF k = id THEN position ELSE markers[k]]
WithoutMarker(markers, id) == [k \in DOMAIN markers \ {id} |-> markers[k]]

\* planeDetector.onPlaneAddedObservable.add((plane) => { ... })      scene.js:325
PlaneAddedScene(a, plane) ==
    IF plane.polygonLength >= 3
    THEN AnchorScene([a EXCEPT !.planeMarkers = WithMarker(a.planeMarkers, plane.id, plane.center)],
                     plane)
    ELSE a

\* if (plane.id === anchoredPlaneId) { rootNode.position.copyFrom(plane.center); ... }
FollowScene(a, plane) ==
    IF Some(plane.id) = a.anchoredPlaneId
    THEN [a EXCEPT !.rootNode.position = Elevated(plane.center)]
    ELSE a

\* planeDetector.onPlaneUpdatedObservable.add((plane) => { ... })    scene.js:365
PlaneUpdatedScene(a, plane) ==
    FollowScene(IF plane.id \in DOMAIN a.planeMarkers
                THEN [a EXCEPT !.planeMarkers = WithMarker(a.planeMarkers, plane.id, plane.center)]
                ELSE a,
                plane)

\* if (plane.id === anchoredPlaneId) { anchoredPlaneId = null; ... }  scene.js:387
UnanchorScene(a, plane) ==
    IF Some(plane.id) = a.anchoredPlaneId
    THEN [a EXCEPT !.anchoredPlaneId = None,
                   !.arStatus.textContent = "Surface lost. Please scan another surface.",
                   !.rootNode.position.y = I(-1000)]
    ELSE a

\* planeDetector.onPlaneRemovedObservable.add((plane) => { ... })    scene.js:379
PlaneRemovedScene(a, plane) ==
    UnanchorScene([a EXCEPT !.planeMarkers = WithoutMarker(a.planeMarkers, plane.id)], plane)

\* the first onStateChangedObservable handler, added when there is a plane
\* detector: planeMarkers.forEach(dispose); planeMarkers.clear()       scene.js:398
CleanUpScene(a, state) ==
    IF a.planeDetector /\ state = "NOT_IN_XR" THEN [a EXCEPT !.planeMarkers = <<>>] ELSE a

\* the second handler without scaleSlider.value = 1 on NOT_IN_XR
EnterExitScene_KeepsSlider(a, state) ==
    IF state = "IN_XR"
    THEN [a EXCEPT !.enterARButton.display = "none",
                   !.exitARButton.display = "block",
                   !.arStatus = [display |-> "block", textContent |-> "Searching for surface..."],
                   !.skyboxMesh = [enabled |-> FALSE, visibility |-> 0],
                   !.rootNode.position = V(Zero, I(-1000), Zero),
                   !.anchoredPlaneId = None]
    ELSE IF state = "NOT_IN_XR"
    THEN [a EXCEPT !.enterARButton.display = "block",
                   !.exitARButton.display = "none",
                   !.arStatus.display = "none",
                   !.scaleContainer.display = "none",
                   !.skyboxMesh = [enabled |-> TRUE, visibility |-> 1],
                   !.rootNode = [position |-> vec3_create, scaling |-> One,
                                 rotationQuaternion |-> None],
                   !.scaleValue.textContent = "1.0",
                   !.anchoredPlaneId = None]
    ELSE a

\* the second onStateChangedObservable handler                        scene.js:408
EnterExitScene(a, state) ==
    IF state = "IN_XR"
    THEN [a EXCEPT !.enterARButton.display = "none",
                   !.exitARButton.display = "block",
                   !.arStatus = [display |-> "block", textContent |-> "Searching for surface..."],
                   !.skyboxMesh = [enabled |-> FALSE, visibility |-> 0],
                   !.rootNode.position = V(Zero, I(-1000), Zero),
                   !.anchoredPlaneId = None]
    ELSE IF state = "NOT_IN_XR"
    THEN [a EXCEPT !.enterARButton.display = "block",
                   !.exitARButton.display = "none",
                   !.arStatus.display = "none",
                   !.scaleContainer.display = "none",
                   !.skyboxMesh = [enabled |-> TRUE, visibility |-> 1],
                   !.rootNode = [position |-> vec3_create, scaling |-> One,
                                 rotationQuaternion |-> None],
                   !.scaleSlider.value = One,
                   !.scaleValue.textContent = "1.0",
                   !.anchoredPlaneId = None]
    ELSE a

\* both handlers, in the order they were added
StateChangedScene(a, state) == EnterExitScene(CleanUpScene(a, state), state)

\* scaleSlider.oninput = () => { ... }                                scene.js:462
SliderInputScene(a) ==
    [a EXCEPT !.scaleValue.textContent = ToFixed1(a.scaleSlider.value),
              !.rootNode.scaling = a.scaleSlider.value]

\* the handlers of the version of the file that a.version names
PlaneAdded(a, plane) ==
    IF a.version = "main" THEN PlaneAddedMain(a, plane) ELSE PlaneAddedScene(a, plane)
PlaneUpdated(a, plane) ==
    IF a.version = "main" THEN PlaneUpdatedMain(a, plane) ELSE PlaneUpdatedScene(a, plane)
PlaneRemoved(a, plane) ==
    IF a.version = "main" THEN PlaneRemovedMain(a, plane) ELSE PlaneRemovedScene(a, plane)
StateChanged(a, state) ==
    IF a.version = "main" THEN StateChangedMain(a, state) ELSE StateChangedScene(a, state)
SliderInput(a) == IF a.version = "main" THEN SliderInputMain(a) ELSE SliderInputScene(a)

\* the page when setupAR has returned: version is the file, detector whether
\* getEnabledFeature returned a plane detector
Page(version, detector) ==
    [version |-> version,
     planeDetector |-> detector,
     state |-> "NOT_IN_XR",
     detected |-> {},
     anchoredPlaneId |-> None,
     rootNode |-> [position |-> vec3_create, scaling |-> One, rotationQuaternion |-> None],
     skyboxMesh |-> [enabled |-> TRUE, visibility |-> 1],
     scaleSlider |-> [value |-> One, display |-> ""],
     scaleContainer |-> [display |-> ""],
     scaleValue |-> [textContent |-> ""],
     arStatus |-> [display |-> "", textContent |-> ""],
     enterARButton |-> [display |-> ""],
     exitARButton |-> [display |-> ""],
     planeMarkers |-> <<>>,
     planeMaterial |-> "blue"]

\* the planes the detector reports: two horizontal ones, the first with the
\* id 0, and a vertical one; each also as it is after it has moved
DetectedPlane(id, normalY, moved) ==
    [id |-> id, normalY |-> normalY, polygonLength |-> 4,
     position |-> V(I(id), IF moved THEN One ELSE Zero, Zero),
     center |-> V(I(id), IF moved THEN One ELSE Zero, I(2))]
Planes ==
    { DetectedPlane(0, One, m) : m \in BOOLEAN } \cup
    { DetectedPlane(1, I(-1), m) : m \in BOOLEAN } \cup
    { DetectedPlane(2, Zero, FALSE) }
\* the values the user drags the slider to
SliderValues == { R(1, 2), I(2) }
\* WebXRState and the changes of state of a session
NextStates(state) ==
    IF state = "NOT_IN_XR" THEN {"ENTERING_XR"}
    ELSE IF state = "ENTERING_XR" THEN {"IN_XR", "NOT_IN_XR"}
    ELSE IF state = "IN_XR" THEN {"EXITING_XR"}
    ELSE {"NOT_IN_XR"}

\* ------------------------------------- scene.js:489-658: pairwise gravity
\* scene.js:547   const G = 0.1
G_pairwise == R(1, 10)

\* mesh and masses.get(mesh)
PairBody(name, mass, position) == [name |-> name, mass |-> mass, position |-> position]

\* const forceMag = G * masses.get(bi) * masses.get(bj) / (dist * dist);
\* const force = dir.normalize().scale(forceMag);
PairForceAlong(bi, bj, dir, dist) ==
    vec3_scale(NormalizeBy(dir, dist),
               Div(Mul(Mul(G_pairwise, bi.mass), bj.mass), Mul(dist, dist)))

\* const dir = bi.position.subtract(bj.position); const dist = dir.length();
PairForce(bi, bj) ==
    PairForceAlong(bi, bj, vec3_subtract(bi.position, bj.position),
                   vec3_length(vec3_subtract(bi.position, bj.position)))

\* force.negate()
Negate(v) == [x |-> Neg(v.x), y |-> Neg(v.y), z |-> Neg(v.z)]

\* bi.physicsImpostor.applyForce(force, bi.getAbsolutePosition());
\* bj.physicsImpostor.applyForce(force.negate(), bj.getAbsolutePosition());
\* (i and j, the indices in bodies, are kept with each call)
ApplyBoth(list, i, j, force) ==
    << [body |-> i, pair |-> <<i, j>>, force |-> force, at |-> list[i].position],
       [body |-> j, pair |-> <<i, j>>, force |-> Negate(force), at |-> list[j].position] >>

\* the body of the inner loop: if (dist === 0) continue; ...
PairStep(list, i, j) ==
    IF vec3_length(vec3_subtract(list[i].position, list[j].position)) = Zero
    THEN <<>>
    ELSE ApplyBoth(list, i, j, PairForce(list[i], list[j]))

\* for (let j = i + 1; j < bodies.length; j++) { ... }, from j on
RECURSIVE InnerLoop(_, _, _)
InnerLoop(list, i, j) ==
    IF j > Len(list) THEN <<>> ELSE PairStep(list, i, j) \o InnerLoop(list, i, j + 1)

\* for (let i = 0; i < bodies.length; i++) { ... }, from i on
RECURSIVE OuterLoop(_, _)
OuterLoop(list, i) ==
    IF i > Len(list) THEN <<>> ELSE InnerLoop(list, i, i + 1) \o OuterLoop(list, i + 1)

\* scene.onBeforeRenderObservable.add(() => { ... }): the calls it makes
BeforeRender(list) == OuterLoop(list, 1)

\* const bodies = [sun, ...planets, ...asteroids, ...comets]: the sun and
\* earth, both created at the origin, and one asteroid of the belt
PairBodies ==
    << PairBody("sun", I(1000), vec3_create),
       PairBody("earth", I(5), vec3_create),
       PairBody("asteroid0", R(1, 100), V(I(4), Zero, Zero)) >>

\* the places the physics engine moves a body to
PairPlaces == { V(I(x), Zero, I(z)) : x \in {0, 3, 4}, z \in {0, 4} }


\* ------------------------------------------------------------------- state
VARIABLES
    variant,    \* which worker script runs: "belt" (part_000) or "planet" (part_001)
    bodies,     \* let bodies
    sun,        \* let sun
    outbox,     \* the messages posted to the main thread, oldest first
    msg,        \* the message handled last (None before the first)
    pre,        \* bodies, sun and the length of outbox as msg found them
    threw,      \* whether the handler of msg ended in an exception
    lastInit,   \* the payload of the init handled last (None before the first)
    nMsgs,      \* number of messages handled
    ticksRun,   \* number of ticks handled that got past the early return
    shadow,     \* the worker fed the same messages, less an init that repeats
                \* the message just before it (n counts the messages it was fed)
    \* the driver (scene.js) and the two message channels
    pc,                  \* where createScene is: "setup", "created", "looping"
    physicsWorker,       \* let physicsWorker: FALSE is null
    inbox,               \* messages posted to the worker and not yet dispatched
    cur,                 \* the message whose handler is running in the worker
                         \* and the state the handler found (None: no handler)
    nDelivered,          \* number of messages of outbox delivered to the driver
    ticksSent,           \* number of ticks the driver has posted
    frames,              \* number of frames rendered
    lastTime,            \* let lastTime (milliseconds)
    asteroidMeshes,      \* id -> mesh.position
    asteroidPhysicsData, \* the driver's copy of the asteroid data
    \* the AR page (main.js)
    ar,                  \* the page: the variables of the file and their objects
    arLast,              \* the event handled last and the page it found (None
                         \* before the first)
    \* the scene with pairwise gravity (scene.js:489-658)
    pbodies,             \* const bodies: the mass and position of each body
    applied              \* the applyForce calls of the frame being rendered,
                         \* in the order they were made (None between frames)

wvars == <<variant, bodies, sun, outbox, msg, pre, threw, lastInit, nMsgs, ticksRun, shadow>>
dvars == <<pc, physicsWorker, inbox, cur, nDelivered, ticksSent, frames, lastTime,
           asteroidMeshes, asteroidPhysicsData>>
avars == <<ar, arLast>>
pvars == <<pbodies, applied>>
vars == <<wvars, dvars, avars, pvars>>

Worker == [bodies |-> bodies, sun |-> sun]

OnMessage(v, w, m) == IF v = "belt" THEN OnMessage000(w, m) ELSE OnMessage001(w, m)

Component(a) == IsFinite(a) => (Abs(a.n) <= MaxNum /\ a.d <= MaxNum)
VecInRange(v) == Component(v.x) /\ Component(v.y) /\ Component(v.z)
\* The numbers of the body list are within the range the model follows.
InRange(bs) ==
    bs # None =>
        \A i \in 1..Len(Val(bs)) :
            VecInRange(Val(bs)[i].position) /\ VecInRange(Val(bs)[i].velocity)

\* The tick gets past `if (!sun || bodies.length === 0 || !dt) return;`
\* without returning or throwing.
PastGuard(v, w, payload) ==
    /\ w.sun # None
    /\ w.bodies # None
    /\ IF v = "belt" THEN ~Skip000(w, payload.dt) ELSE ~Skip001(w, payload.dt)

\* The state after the worker, which held w when the handler began, has
\* handled m with outcome r, the shadow worker with outcome sr.
HandledAt(w, m, r, sr) ==
    /\ bodies' = r.bodies
    /\ sun' = r.sun
    /\ outbox' = outbox \o r.out
    /\ threw' = r.threw
    /\ msg' = Some(m)
    /\ pre' = [bodies |-> w.bodies, sun |-> w.sun, nOut |-> Len(outbox)]
    /\ nMsgs' = nMsgs + 1
    /\ lastInit' = IF m.type = "init" THEN Some(m.payload) ELSE lastInit
    /\ ticksRun' = IF m.type = "tick" /\ PastGuard(variant, w, m.payload)
                   THEN ticksRun + 1 ELSE ticksRun
    /\ shadow' = IF m.type = "init" /\ msg = Some(m) THEN shadow
                 ELSE [bodies |-> sr.bodies, sun |-> sr.sun,
                       outbox |-> shadow.outbox \o sr.out, n |-> shadow.n + 1]
    /\ UNCHANGED variant

Handled(m, r, sr) == HandledAt(Worker, m, r, sr)

\* The worker handles message m: the whole of self.onmessage.
Deliver(m) ==
    Handled(m, OnMessage(variant, Worker, m),
            OnMessage(variant, [bodies |-> shadow.bodies, sun |-> shadow.sun], m))

WorkerAndDriverStart ==
    /\ variant \in {"belt", "planet"}
    /\ bodies = Some(<<>>)      \* let bodies = [];
    /\ sun = None               \* let sun = null;
    /\ outbox = <<>>
    /\ msg = None
    /\ pre = [bodies |-> Some(<<>>), sun |-> None, nOut |-> 0]
    /\ threw = FALSE
    /\ lastInit = None
    /\ nMsgs = 0
    /\ ticksRun = 0
    /\ shadow = [bodies |-> Some(<<>>), sun |-> None, outbox |-> <<>>, n |-> 0]
    \* createScene has generated the asteroids and is about to set up the worker
    /\ pc = "setup"
    /\ physicsWorker = FALSE
    /\ inbox = <<>>
    /\ cur = None
    /\ nDelivered = 0
    /\ ticksSent = 0
    /\ frames = 0
    /\ lastTime = 0
    /\ asteroidMeshes = GeneratedMeshes
    /\ asteroidPhysicsData = GeneratedAsteroids

\* the scene with pairwise gravity before its first frame
PairStart(list) ==
    /\ pbodies = list
    /\ applied = None

Init ==
    /\ WorkerAndDriverStart
    /\ ar = Page("main", FALSE)
    /\ arLast = None
    /\ PairStart(PairBodies)

InitBelt ==
    /\ variant = "belt"
    /\ nMsgs < MaxMsgs
    /\ \E p \in InitPayloads : Deliver([type |-> "init", payload |-> p])
    /\ UNCHANGED dvars
    /\ UNCHANGED <<avars, pvars>>

TickBelt ==
    /\ variant = "belt"
    /\ nMsgs < MaxMsgs
    /\ InRange(bodies)
    /\ \E p \in TickPayloads : Deliver([type |-> "tick", payload |-> p])
    /\ UNCHANGED dvars
    /\ UNCHANGED <<avars, pvars>>

InitPlanet ==
    /\ variant = "planet"
    /\ nMsgs < MaxMsgs
    /\ \E p \in InitPayloads : Deliver([type |-> "init", payload |-> p])
    /\ UNCHANGED dvars
    /\ UNCHANGED <<avars, pvars>>

TickPlanet ==
    /\ variant = "planet"
    /\ nMsgs < MaxMsgs
    /\ InRange(bodies)
    /\ \E p \in TickPayloads : Deliver([type |-> "tick", payload |-> p])
    /\ UNCHANGED dvars
    /\ UNCHANGED <<avars, pvars>>

Next == InitBelt \/ TickBelt \/ InitPlanet \/ TickPlanet

Spec == Init /\ [][Next]_vars

\* -------------------------------------------------- the driver and the worker
\* CreateWorker without the init posted
CreateWorker_NoInit ==
    /\ pc = "setup"
    /\ physicsWorker' \in BOOLEAN
    /\ pc' = "created"
    /\ UNCHANGED <<inbox, cur, nDelivered, ticksSent, frames, lastTime, asteroidMeshes,
                   asteroidPhysicsData>>
    /\ UNCHANGED wvars
    /\ UNCHANGED <<avars, pvars>>

\* let physicsWorker = null; if (window.Worker) { physicsWorker = new Worker(...);
\* physicsWorker.postMessage({ type: 'init', ... }); ... }
CreateWorker ==
    /\ pc = "setup"
    /\ \E supported \in BOOLEAN :
          /\ physicsWorker' = supported
          /\ inbox' = IF supported THEN Append(inbox, InitMessage(asteroidPhysicsData))
                      ELSE inbox
    /\ pc' = "created"
    /\ UNCHANGED <<cur, nDelivered, ticksSent, frames, lastTime, asteroidMeshes,
                   asteroidPhysicsData>>
    /\ UNCHANGED wvars
    /\ UNCHANGED <<avars, pvars>>

\* let lastTime = performance.now(); scene.registerBeforeRender(...)
RegisterLoop ==
    /\ pc = "created"
    /\ lastTime' \in LoadTimes
    /\ pc' = "looping"
    /\ UNCHANGED <<physicsWorker, inbox, cur, nDelivered, ticksSent, frames,
                   asteroidMeshes, asteroidPhysicsData>>
    /\ UNCHANGED wvars
    /\ UNCHANGED <<avars, pvars>>

\* the callback of registerBeforeRender, run at currentTime
FrameAt(currentTime) ==
    /\ lastTime' = currentTime
    /\ frames' = frames + 1
    /\ IF physicsWorker
       THEN /\ inbox' = Append(inbox, TickMessage(DeltaTime(currentTime, lastTime)))
            /\ ticksSent' = ticksSent + 1
       ELSE UNCHANGED <<inbox, ticksSent>>

Frame ==
    /\ pc = "looping"
    /\ frames < MaxFrames
    /\ \E e \in Elapsed : FrameAt(lastTime + e)
    /\ UNCHANGED <<pc, physicsWorker, cur, nDelivered, asteroidMeshes, asteroidPhysicsData>>
    /\ UNCHANGED wvars
    /\ UNCHANGED <<avars, pvars>>

\* Dispatchable with a handler started while another is running
Dispatchable_Reentrant == inbox # <<>>

\* the worker's event loop takes a message when no handler is running:
\* self.onmessage is a synchronous function
Dispatchable == cur = None /\ inbox # <<>>

\* the worker starts the handler of the oldest message and runs its first half
WorkerBegin ==
    /\ Dispatchable
    /\ (Head(inbox).type = "tick" /\ PastGuard(variant, Worker, Head(inbox).payload))
          => InRange(bodies)
    /\ cur' = Some([m |-> Head(inbox), at |-> Worker])
    /\ inbox' = Tail(inbox)
    /\ bodies' = FirstHalf000(Worker, Head(inbox)).bodies
    /\ sun' = FirstHalf000(Worker, Head(inbox)).sun
    /\ UNCHANGED <<variant, outbox, msg, pre, threw, lastInit, nMsgs, ticksRun, shadow>>
    /\ UNCHANGED <<pc, physicsWorker, nDelivered, ticksSent, frames, lastTime,
                   asteroidMeshes, asteroidPhysicsData>>
    /\ UNCHANGED <<avars, pvars>>

\* the handler runs its second half and returns
WorkerFinish ==
    /\ cur # None
    /\ HandledAt(Val(cur).at, Val(cur).m,
                 SecondHalf000(Worker, Val(cur).m),
                 OnMessage(variant, [bodies |-> shadow.bodies, sun |-> shadow.sun],
                           Val(cur).m))
    /\ cur' = None
    /\ UNCHANGED <<pc, physicsWorker, inbox, nDelivered, ticksSent, frames, lastTime,
                   asteroidMeshes, asteroidPhysicsData>>
    /\ UNCHANGED <<avars, pvars>>

\* physicsWorker.onmessage with the oldest message not yet delivered
OnWorkerMessage(e) ==
    IF e.type = "update"
    THEN /\ asteroidMeshes' = MovedMeshes(asteroidMeshes, e.bodies)
         /\ asteroidPhysicsData' = UpdatedData(asteroidMeshes, asteroidPhysicsData, e.bodies)
    ELSE UNCHANGED <<asteroidMeshes, asteroidPhysicsData>>

DriverReceive ==
    /\ nDelivered < Len(outbox)
    /\ OnWorkerMessage(outbox[nDelivered + 1])
    /\ nDelivered' = nDelivered + 1
    /\ UNCHANGED <<pc, physicsWorker, inbox, cur, ticksSent, frames, lastTime>>
    /\ UNCHANGED wvars
    /\ UNCHANGED <<avars, pvars>>

DriverNext ==
    CreateWorker \/ RegisterLoop \/ Frame \/ WorkerBegin \/ WorkerFinish \/ DriverReceive

\* new Worker('physics.worker.js'): the worker the driver's { bodies, sun } and
\* its asteroids are written for is the asteroid-belt integrator
DriverInit == Init /\ variant = "belt"

DriverSpec == DriverInit /\ [][DriverNext]_vars

\* ------------------------------------------------------------ the AR page
\* the page after the handler of an event, and the event with the page it found
ARHandled(kind, plane, state, a) ==
    /\ ar' = a
    /\ arLast' = Some([kind |-> kind, plane |-> plane, state |-> state, pre |-> ar])
    /\ UNCHANGED <<wvars, dvars, pvars>>

\* the session changes state and onStateChangedObservable notifies the page;
\* a session that has ended has no detected planes
XRStateChange ==
    \E state \in NextStates(ar.state) :
        ARHandled("state", None, Some(state),
                  StateChanged([ar EXCEPT !.state = state,
                                          !.detected = IF state = "NOT_IN_XR" THEN {}
                                                       ELSE ar.detected],
                               state))

\* the detector reports a plane it has not reported before
PlaneAddedEvent ==
    /\ ar.planeDetector
    /\ ar.state # "NOT_IN_XR"
    /\ \E plane \in Planes :
          /\ plane.id \notin ar.detected
          /\ ARHandled("added", Some(plane), None,
                       PlaneAdded([ar EXCEPT !.detected = ar.detected \cup {plane.id}], plane))

\* the detector reports a change of a plane it has reported
PlaneUpdatedEvent ==
    /\ ar.planeDetector
    /\ ar.state # "NOT_IN_XR"
    /\ \E plane \in Planes :
          /\ plane.id \in ar.detected
          /\ ARHandled("updated", Some(plane), None, PlaneUpdated(ar, plane))

\* the detector reports the loss of a plane it has reported
PlaneRemovedEvent ==
    /\ ar.planeDetector
    /\ ar.state # "NOT_IN_XR"
    /\ \E plane \in Planes :
          /\ plane.id \in ar.detected
          /\ ARHandled("removed", Some(plane), None,
                       PlaneRemoved([ar EXCEPT !.detected = ar.detected \ {plane.id}], plane))

\* the user drags the slider
SliderEvent ==
    /\ ar.version \in {"main", "scene"}
    /\ \E value \in SliderValues :
          ARHandled("slider", None, None,
                    SliderInput([ar EXCEPT !.scaleSlider.value = value]))

ARNext ==
    XRStateChange \/ PlaneAddedEvent \/ PlaneUpdatedEvent \/ PlaneRemovedEvent \/ SliderEvent

\* setupAR has returned, for either version of the file, with or without a
\* plane detector
ARInit ==
    /\ WorkerAndDriverStart
    /\ variant = "belt"
    /\ \E version \in {"main", "scene"}, detector \in BOOLEAN : ar = Page(version, detector)
    /\ arLast = None
    /\ PairStart(PairBodies)

ARSpec == ARInit /\ [][ARNext]_vars

\* -------------------------------------------- the pairwise-gravity scene
\* a frame is rendered: the onBeforeRenderObservable callback runs
PairFrame ==
    /\ applied = None
    /\ applied' = Some(BeforeRender(pbodies))
    /\ UNCHANGED <<pbodies, wvars, dvars, avars>>

\* the physics engine (CannonJS, not part of the repository) steps: it uses up
\* the forces applied and moves the bodies, here one of them to any place
PhysicsStep ==
    /\ applied # None
    /\ \E i \in 1..Len(pbodies), place \in PairPlaces :
          pbodies' = [pbodies EXCEPT ![i].position = place]
    /\ applied' = None
    /\ UNCHANGED <<wvars, dvars, avars>>

PairNext == PairFrame \/ PhysicsStep

PairInit == Init /\ variant = "belt"

PairSpec == PairInit /\ [][PairNext]_vars

\* ================================================================== claims
\* Vocabulary of the claims, over the message handled last (msg) and the
\* state it found (pre).
IsInit == msg # None /\ Val(msg).type = "init"
IsTick == msg # None /\ Val(msg).type = "tick"
Payload == Val(msg).payload
\* the tick handled last got past the early return
Ran == IsTick /\ PastGuard(variant, pre, Payload)
\* the tick handled last has a dt > 0
PositiveDt == Payload.dt # None /\ Gt(Val(Payload.dt), Zero)
PreList == Val(pre.bodies)
List == Val(bodies)
PreSun == Val(pre.sun)

VecFinite(v) == IsFinite(v.x) /\ IsFinite(v.y) /\ IsFinite(v.z)
Dot(a, b) == Add(Add(Mul(a.x, b.x), Mul(a.y, b.y)), Mul(a.z, b.z))
\* toSun and its squared length for body b before the tick
ToSun(b) == vec3_subtract(PreSun.position, b.position)
DistSq(b) == vec3_lengthSq(ToSun(b))
\* force f on body b points away from / toward the attractor
Outward(f, b) == Lt(Dot(f, ToSun(b)), Zero)
Inward(f, b) == Gt(Dot(f, ToSun(b)), Zero)
\* a body list without the transient force field
Kinematic(list) ==
    [i \in 1..Len(list) |->
        [id |-> list[i].id, mass |-> list[i].mass, position |-> list[i].position,
         velocity |-> list[i].velocity]]
Ids(list) == [i \in 1..Len(list) |-> list[i].id]
\* the list an init payload supplies to the running variant
Supplied(p) == IF variant = "belt" THEN p.bodies ELSE p.planets

\* ---- C1
\* C1: in the belt integrator, a tick with dt > 0 leaves the force, velocity
\* and position of a body that was exactly at the attractor's position finite.
C1_CoincidentBodyStaysFinite ==
    (variant = "belt" /\ Ran /\ PositiveDt) =>
        \A i \in 1..Len(PreList) :
            (/\ PreList[i].position = PreSun.position
             /\ VecFinite(PreList[i].position)
             /\ VecFinite(PreList[i].velocity)) =>
                /\ VecFinite(Val(List[i].force))
                /\ VecFinite(List[i].velocity)
                /\ VecFinite(List[i].position)

\* ---- C2
\* the force on body b evaluated at b's position, by the running variant
ForceAt(b) ==
    IF variant = "belt"
    THEN Val(Accumulate000(PreSun, [b EXCEPT !.force = Some(vec3_create)]).force)
    ELSE Force001(PreSun, b)
Accel(f, b) == vec3_scale(f, Div(One, b.mass))
Dt == Val(Payload.dt)

Close(i) ==
    /\ Gt(DistSq(PreList[i]), Zero)
    /\ Lt(DistSq(PreList[i]), SUN_REPULSION_DISTANCE_SQ)
    /\ Gt(PreList[i].mass, Zero)
    /\ Gt(PreSun.mass, Zero)
\* the repulsion and the gravity per unit of body mass at squared distance d2
RepulsionPerMass(d2) == Div(Mul(SUN_REPULSION_STRENGTH, SUN_REPULSION_DISTANCE_SQ), d2)
GravityPerMass(d2) == Div(Mul(G, PreSun.mass), MathMax(d2, DIST_FLOOR))

\* C3 as stated: with repulsion, every body closer than squared distance 2.25
\* ends force accumulation with a net outward force; without it, inward.
C3_CloseBodyPushedOut ==
    (variant = "belt" /\ Ran) =>
        \A i \in 1..Len(PreList) :
            Close(i) =>
                /\ Outward(Val(List[i].force), PreList[i])
                /\ Inward(Force001(PreSun, PreList[i]), PreList[i])

\* C3 amended: with repulsion, a body at squared distance d2 in (0, 2.25) ends
\* force accumulation with a net outward force exactly when
\* 0.05 * 2.25 / d2 > G * sunMass / max(d2, 0.1), and with a net inward force
\* when it is smaller; without the repulsion term the force is inward.
C3_RepulsionAgainstGravity ==
    (variant = "belt" /\ Ran) =>
        \A i \in 1..Len(PreList) :
            Close(i) =>
                /\ Gt(RepulsionPerMass(DistSq(PreList[i])), GravityPerMass(DistSq(PreList[i])))
                     <=> Outward(Val(List[i].force), PreList[i])
                /\ Lt(RepulsionPerMass(DistSq(PreList[i])), GravityPerMass(DistSq(PreList[i])))
                     <=> Inward(Val(List[i].force), PreList[i])
                /\ Inward(Force001(PreSun, PreList[i]), PreList[i])

\* a belt tick has left a close body with a net outward force
C3_Witness ==
    /\ variant = "belt"
    /\ Ran
    /\ \E i \in 1..Len(PreList) :
          Close(i) /\ Outward(Val(List[i].force), PreList[i])

\* ---- C4
\* C4: a tick that finds the attractor unset or the body list empty changes
\* no state, posts no update and throws nothing.
C4_UninitializedTickIsNoOp ==
    (IsTick /\ (pre.sun = None \/ pre.bodies = Some(<<>>))) =>
        /\ bodies = pre.bodies
        /\ sun = pre.sun
        /\ Len(outbox) = pre.nOut
        /\ ~threw

\* a tick with dt > 0 found an attractor and an empty body list
C4_Witness ==
    /\ IsTick
    /\ PositiveDt
    /\ pre.sun # None
    /\ pre.bodies = Some(<<>>)
    /\ variant = "belt"

\* ---- C5
\* C5 as stated: a tick whose dt is zero, negative or missing changes no body
\* and posts no update.
C5_NonPositiveDtSkipped ==
    (IsTick /\ ~PositiveDt) => (bodies = pre.bodies /\ Len(outbox) = pre.nOut)

\* ---- C6
\* C6: after an init with positive masses, a tick with dt = 0 leaves every
\* body's position and velocity as they were.
C6_ZeroDtIdentity ==
    (/\ IsTick
     /\ Payload.dt = Some(Zero)
     /\ lastInit # None
     /\ pre.bodies # None
     /\ pre.sun # None) =>
        /\ bodies # None
        /\ Len(List) = Len(PreList)
        /\ \A i \in 1..Len(PreList) :
              /\ List[i].position = PreList[i].position
              /\ List[i].velocity = PreList[i].velocity

\* a tick with dt = 0 found two bodies and an attractor after an earlier tick
\* had integrated
C6_Witness ==
    /\ IsTick
    /\ Payload.dt = Some(Zero)
    /\ pre.sun # None
    /\ pre.bodies # None
    /\ Len(PreList) = 2
    /\ ticksRun >= 1

\* ---- C7
\* C7: the update a tick posts has one entry per body held, in the order of
\* the most recent init, each with that body's id.
C7_UpdateKeepsOrderAndIds ==
    (IsTick /\ Len(outbox) > pre.nOut) =>
        /\ Len(outbox) = pre.nOut + 1
        /\ outbox[Len(outbox)].type = "update"
        /\ Ids(outbox[Len(outbox)].bodies) = Ids(List)
        /\ Ids(outbox[Len(outbox)].bodies) = Ids(Val(Supplied(Val(lastInit))))
        /\ \A i \in 1..Len(List) :
              /\ outbox[Len(outbox)].bodies[i].position = List[i].position
              /\ outbox[Len(outbox)].bodies[i].velocity = List[i].velocity

\* the second tick in a row on a list of two bodies posted an update (the
\* tick found a body with the force an earlier tick had left on it)
C7_Witness ==
    /\ IsTick
    /\ Len(outbox) > pre.nOut
    /\ ticksRun >= 2
    /\ Len(outbox[Len(outbox)].bodies) = 2
    /\ variant = "belt"
    /\ \E i \in 1..Len(PreList) :
          /\ VecFinite(Val(PreList[i].force))
          /\ Val(PreList[i].force) # vec3_create
          /\ VecFinite(List[i].position)

\* ---- C8
\* C8: an init posts nothing, a skipped tick posts nothing, a tick that gets
\* past the early return posts exactly one update; the number of updates
\* posted equals the number of ticks that got past the early return.
C8_UpdatesOnlyFromTicks ==
    /\ Len(outbox) = ticksRun
    /\ \A k \in 1..Len(outbox) : outbox[k].type = "update"
    /\ msg # None => Len(outbox) = pre.nOut + (IF Ran THEN 1 ELSE 0)

\* the fourth message handled was an init, after exactly one tick had posted
\* an update
C8_Witness ==
    /\ variant = "belt"
    /\ IsInit
    /\ ~threw
    /\ ticksRun = 1
    /\ nMsgs = 4

\* ---- C9
\* the init handled last had the documented shape { bodies, sun }
Documented == IsInit /\ Payload.bodies # None /\ Payload.sun # None

\* C9 as stated: in every variant, after an init of the documented shape the
\* body list is the supplied bodies and the attractor the supplied sun.
C9_InitReplacesStateEveryVariant ==
    Documented =>
        /\ bodies # None
        /\ Kinematic(List) = Kinematic(Val(Payload.bodies))
        /\ sun = Payload.sun
        /\ ~threw

\* ---- C10
\* C10: a run in which an init is handled twice in a row ends its next tick in
\* the same state, with the same updates posted, as the run with that init
\* handled once.
C10_InitIdempotent ==
    IsTick =>
        /\ shadow.bodies = bodies
        /\ shadow.sun = sun
        /\ shadow.outbox = outbox

\* init(X); init(X); tick(dt) was handled and the tick posted an update
C10_Witness ==
    /\ nMsgs = 3
    /\ shadow.n = 2
    /\ Ran
    /\ ticksRun = 1
    /\ Len(outbox) = 1

\* ---- C11
\* the init handled last supplied an empty body list or no body list, or no
\* attractor
BadInit ==
    /\ IsInit
    /\ (Payload.bodies = None \/ Payload.bodies = Some(<<>>) \/ Payload.sun = None)
\* the worker holds what it held before the message handled last
StateKept == bodies = pre.bodies /\ sun = pre.sun

\* C11 as stated: a belt init whose body list is empty or whose attractor is
\* absent leaves the held bodies and attractor unchanged or ends in an error,
\* and never makes the empty list or the absent attractor the held state.
C11_BadInitRejected ==
    (variant = "belt" /\ BadInit) =>
        /\ (StateKept \/ threw)
        /\ (bodies # pre.bodies => bodies # Payload.bodies)
        /\ (sun # pre.sun => sun # Payload.sun)

\* ---- C12
\* every body of list has a mass > 0
MassesPositive(list) == \A i \in 1..Len(list) : Gt(list[i].mass, Zero)

\* C12 as stated: in every state every held body and the held attractor have
\* mass > 0, and no tick integrates a body list with a non-positive mass.
C12_MassesAlwaysPositive ==
    /\ bodies # None => MassesPositive(List)
    /\ sun # None => Gt(Val(sun).mass, Zero)
    /\ Ran => MassesPositive(PreList)

\* ---- C13
\* the gravity on body b before the tick, with the floored squared distance
GravityOn(b) ==
    vec3_scale(vec3_normalize(ToSun(b)),
               GravForceMag(PreSun, b, MathMax(DistSq(b), DIST_FLOOR)))
\* the repulsion the claim describes: present when the true squared distance
\* is below 2.25, of magnitude 0.05 * mass * (2.25 / max(distSq, 0.1)), against
\* the direction of attraction
FlooredRepulsionOn(b) ==
    IF Lt(DistSq(b), SUN_REPULSION_DISTANCE_SQ)
    THEN vec3_scale(vec3_normalize(ToSun(b)),
                    Neg(Mul(Mul(SUN_REPULSION_STRENGTH, b.mass),
                            Div(SUN_REPULSION_DISTANCE_SQ,
                                MathMax(DistSq(b), DIST_FLOOR)))))
    ELSE vec3_create

\* C13 as stated: the force a belt tick leaves on a body is its gravity plus,
\* exactly when the true squared distance is below 2.25, a repulsion of
\* magnitude 0.05 * mass * (2.25 / max(distSq, 0.1)) against the direction of
\* attraction.
C13_RepulsionUsesFlooredDistance ==
    (variant = "belt" /\ Ran) =>
        \A i \in 1..Len(PreList) :
            Val(List[i].force) =
                vec3_add(vec3_add(vec3_create, GravityOn(PreList[i])),
                         FlooredRepulsionOn(PreList[i]))

\* ---- C14
\* the tick handled last is the first message after the init of the scenario:
\* one body p of mass 1 at (5,0,0) with velocity (0,0,-1), a sun of mass 1000
\* at the origin, dt = 0.1
Scenario ==
    /\ variant = "belt"
    /\ IsTick
    /\ Payload.dt = Some(R(1, 10))
    /\ lastInit = Some([NoPayload EXCEPT !.bodies = Some(<<bodyP>>),
                                         !.sun = Some(Sun(I(1000)))])
    /\ pre.bodies = Some(ResetForces(<<bodyP>>))
    /\ pre.sun = Some(Sun(I(1000)))

\* C14: the tick of the scenario posts one update with the single entry p,
\* velocity (-0.4, 0, -1) and position (4.96, 0, -0.1), from distSq = 25,
\* gravity magnitude 4 and direction (-1, 0, 0).
C14_ScenarioTick ==
    Scenario =>
        /\ DistSq(PreList[1]) = I(25)
        /\ GravForceMag(PreSun, PreList[1], MathMax(DistSq(PreList[1]), DIST_FLOOR)) = I(4)
        /\ vec3_normalize(ToSun(PreList[1])) = V(I(-1), Zero, Zero)
        /\ Len(outbox) = pre.nOut + 1
        /\ outbox[Len(outbox)] =
             [type |-> "update",
              bodies |-> << [id |-> "p",
                             position |-> V(R(496, 100), Zero, R(-1, 10)),
                             velocity |-> V(R(-4, 10), Zero, I(-1))] >>]

\* the tick of the scenario has been handled and has posted its update
C14_Witness == Scenario /\ nMsgs = 2 /\ Len(outbox) = 1

\* ---- C15
Masses(list) == [i \in 1..Len(list) |-> list[i].mass]
\* the update posted last
LastUpdate == outbox[Len(outbox)]

\* C15: a tick leaves the attractor, the number and order of the bodies and
\* every body's id and mass as it found them, so that after any sequence of
\* ticks they are those of the last init; the attractor is in no update.
C15_TickFrame ==
    /\ IsTick =>
          /\ sun = pre.sun
          /\ (bodies = None) <=> (pre.bodies = None)
          /\ bodies # None =>
                /\ Ids(List) = Ids(PreList)
                /\ Masses(List) = Masses(PreList)
          /\ Len(outbox) > pre.nOut =>
                /\ Len(LastUpdate.bodies) = Len(PreList)
                /\ \A k \in 1..Len(LastUpdate.bodies) :
                      LastUpdate.bodies[k].id # Val(sun).id
    /\ (lastInit # None /\ ~threw /\ bodies # None) =>
          /\ sun = Val(lastInit).sun
          /\ Ids(List) = Ids(Val(Supplied(Val(lastInit))))
          /\ Masses(List) = Masses(Val(Supplied(Val(lastInit))))

\* the second tick in a row has moved the two bodies of a belt
C15_Witness ==
    /\ variant = "belt"
    /\ Ran
    /\ ticksRun >= 2
    /\ Len(PreList) = 2
    /\ PreList[1].force # None
    /\ Len(outbox) > pre.nOut
    /\ \E i \in 1..2 : List[i].position # PreList[i].position

\* ---- C16
\* steps 1 to 3 of a tick of the running variant
StepOf(s, list, dt) ==
    IF variant = "belt" THEN Step000(s, list, dt) ELSE Step001(s, list, dt)
\* body b as the driver supplies it: id, mass, position, velocity and nothing else
Own(b) == Body(b.id, b.mass, b.position, b.velocity)
Motion(b) == [position |-> b.position, velocity |-> b.velocity]
AnyBody == {bodyA, bodyB, bodyP, bodyZ}

\* C16: the position and velocity a tick gives a body are those the same tick
\* gives it in the run where it is alone in the list, and in the runs where
\* any other body comes before it or after it.
C16_BodiesIndependent ==
    Ran =>
        \A i \in 1..Len(PreList) :
            /\ Motion(List[i]) = Motion(StepOf(PreSun, <<Own(PreList[i])>>, Dt)[1])
            /\ \A o \in AnyBody :
                  /\ Motion(List[i]) = Motion(StepOf(PreSun, <<o, Own(PreList[i])>>, Dt)[2])
                  /\ Motion(List[i]) = Motion(StepOf(PreSun, <<Own(PreList[i]), o>>, Dt)[1])

\* a tick has moved two bodies, the second to a finite position, while the
\* first is the one at the attractor
C16_Witness ==
    /\ Ran
    /\ Len(PreList) = 2
    /\ PreList[1].position = PreSun.position
    /\ VecFinite(List[2].position)
    /\ List[2].velocity # PreList[2].velocity

\* ---- C17
\* the ticks the driver has posted whose update has not been delivered to it
Outstanding == ticksSent - nDelivered

\* C17 as stated: at every moment of the exchange between the driver and the
\* worker at most one tick is outstanding.
C17_AtMostOneTickOutstanding == Outstanding <= 1

\* ---- C18
\* the worker state w is the one the driver's init leaves: the generated
\* asteroids, in order, and sunData
Initialized(w) ==
    /\ w.sun = Some(sunData)
    /\ w.bodies # None
    /\ Ids(Val(w.bodies)) = Ids(GeneratedAsteroids)
    /\ Masses(Val(w.bodies)) = Masses(GeneratedAsteroids)

\* C18: without a worker the driver posts no tick; with one, its init is the
\* oldest message until the worker takes it, the init does not fail, and
\* every tick the worker starts or has handled found the state of that init.
C18_InitBeforeTicks ==
    /\ ~physicsWorker => ticksSent = 0
    /\ (physicsWorker /\ nMsgs = 0 /\ cur = None) =>
          (inbox # <<>> /\ Head(inbox) = InitMessage(GeneratedAsteroids))
    /\ IsInit => ~threw /\ Initialized(Worker)
    /\ (cur # None /\ Val(cur).m.type = "tick") =>
          /\ lastInit = Some(InitMessage(GeneratedAsteroids).payload)
          /\ Initialized(Val(cur).at)
    /\ IsTick =>
          /\ lastInit = Some(InitMessage(GeneratedAsteroids).payload)
          /\ Initialized(pre)
          /\ ~threw

\* the worker has handled the init and then the first tick, which posted an
\* update
C18_Witness ==
    /\ physicsWorker
    /\ nMsgs = 2
    /\ Ran
    /\ Len(outbox) = 1

\* ---- C19
\* m is not a tick, or it is one whose dt is a number <= 0.05
DtClamped(m) ==
    m.type = "tick" =>
        /\ m.payload.dt # None
        /\ ~Gt(Val(m.payload.dt), R(5, 100))
        /\ ~IsNaN(Val(m.payload.dt))

\* C19: every tick the driver has posted, whether waiting, in the worker's
\* handler or handled last, carries a dt <= 0.05, whatever time passed between
\* the two frames.
C19_TickDtAtMostFiftyMs ==
    /\ \A k \in 1..Len(inbox) : DtClamped(inbox[k])
    /\ cur # None => DtClamped(Val(cur).m)
    /\ msg # None => DtClamped(Val(msg))

\* a frame 100 ms after the one before it has posted its tick, the last in
\* the queue, with dt = 0.05
C19_Witness ==
    /\ inbox # <<>>
    /\ inbox[Len(inbox)].type = "tick"
    /\ inbox[Len(inbox)].payload.dt = Some(R(5, 100))
    /\ frames >= 2
    /\ ticksSent = frames

\* ---- C20
\* the bodies and the attractor as the handler of the message handled last
\* leaves them when it runs from its first statement to its last on the state
\* it found (the state of construction before any message)
Completed ==
    IF msg = None THEN [bodies |-> Some(<<>>), sun |-> None]
    ELSE [bodies |-> OnMessage000(pre, Val(msg)).bodies,
          sun |-> OnMessage000(pre, Val(msg)).sun]

\* C20: whatever the driver posts and whenever, a handler of the worker starts
\* on the state the handler before it left after its last statement, never on
\* a list that handler has only partly updated; while it runs the list is its
\* own partial result; and when it returns the state, the updates posted and
\* the error raised are those of the handler run alone from start to end.
C20_HandlersRunToCompletion ==
    /\ cur # None =>
          /\ Val(cur).at = Completed
          /\ Worker = FirstHalf000(Val(cur).at, Val(cur).m)
    /\ cur = None => Worker = Completed
    /\ msg # None =>
          /\ threw = OnMessage000(pre, Val(msg)).threw
          /\ Len(outbox) >= pre.nOut + Len(OnMessage000(pre, Val(msg)).out)
          /\ \A k \in 1..Len(OnMessage000(pre, Val(msg)).out) :
                outbox[pre.nOut + k] = OnMessage000(pre, Val(msg)).out[k]

\* a tick is waiting in the queue while the handler of another tick has
\* accumulated the forces and not yet moved the bodies
C20_Witness ==
    /\ cur # None
    /\ Val(cur).m.type = "tick"
    /\ PastGuard(variant, Val(cur).at, Val(cur).m.payload)
    /\ bodies # Val(cur).at.bodies
    /\ inbox # <<>>
    /\ Head(inbox).type = "tick"

\* ---- C22
\* updates the driver is tried on: up to three entries with pairwise distinct
\* ids, in every order, for the two asteroids and for an id the driver never
\* generated
TestEntries ==
    { [id |-> AsteroidId(0), position |-> V(One, I(2), I(3)), velocity |-> V(Zero, Zero, One)],
      [id |-> AsteroidId(1), position |-> V(I(4), I(5), I(6)), velocity |-> V(Zero, One, Zero)],
      [id |-> "comet_7", position |-> V(I(7), I(8), I(9)), velocity |-> V(One, Zero, Zero)] }
TestUpdates ==
    { u \in UNION {[1..n -> TestEntries] : n \in 1..3} :
        \A j, k \in 1..Len(u) : j # k => u[j].id # u[k].id }
\* whether meshes and data are the driver's meshes and data after an update
\* with these entries, by the rule of the claim
CorrelatedById(meshes, data, entries) ==
    /\ DOMAIN meshes = DOMAIN asteroidMeshes
    /\ Len(data) = Len(asteroidPhysicsData)
    /\ \A k \in 1..Len(entries) :
          entries[k].id \in DOMAIN asteroidMeshes =>
              /\ meshes[entries[k].id] = entries[k].position
              /\ \A i \in 1..Len(data) :
                    data[i].id = entries[k].id => data[i].velocity = entries[k].velocity
    /\ \A id \in DOMAIN asteroidMeshes :
          ~Mentions(entries, id) => meshes[id] = asteroidMeshes[id]
    /\ \A i \in 1..Len(data) :
          /\ ~Mentions(entries, data[i].id) => data[i] = asteroidPhysicsData[i]
          /\ [data[i] EXCEPT !.velocity = vec3_create] =
                [asteroidPhysicsData[i] EXCEPT !.velocity = vec3_create]

\* C22: in every state of the driver, handling any update gives each asteroid
\* whose id an entry carries that entry's position for its mesh and that
\* entry's velocity for its data, whatever the place of the entry; entries
\* with other ids and asteroids without an entry change nothing; the update
\* delivered last has been applied so; the generated ids are pairwise distinct.
C22_UpdatesCorrelatedById ==
    /\ \A u \in TestUpdates :
          CorrelatedById(MovedMeshes(asteroidMeshes, u),
                         UpdatedData(asteroidMeshes, asteroidPhysicsData, u), u)
    /\ (nDelivered >= 1 /\ outbox[nDelivered].type = "update") =>
          \A k \in 1..Len(outbox[nDelivered].bodies) :
              outbox[nDelivered].bodies[k].id \in DOMAIN asteroidMeshes =>
                  /\ asteroidMeshes[outbox[nDelivered].bodies[k].id] =
                        outbox[nDelivered].bodies[k].position
                  /\ \A i \in 1..Len(asteroidPhysicsData) :
                        asteroidPhysicsData[i].id = outbox[nDelivered].bodies[k].id =>
                            asteroidPhysicsData[i].velocity =
                                outbox[nDelivered].bodies[k].velocity
    /\ \A i, j \in 1..Len(asteroidPhysicsData) :
          i # j => asteroidPhysicsData[i].id # asteroidPhysicsData[j].id
    /\ \A i, j \in 0..(Len(asteroidPhysicsData) + 10) :
          i # j => AsteroidId(i) # AsteroidId(j)

\* the driver has handled the update of a tick that moved both asteroids
C22_Witness ==
    /\ nDelivered = 1
    /\ outbox[1].type = "update"
    /\ Len(outbox[1].bodies) = 2
    /\ \A id \in DOMAIN asteroidMeshes : asteroidMeshes[id] # GeneratedMeshes[id]
    /\ \A i \in 1..Len(asteroidPhysicsData) :
          asteroidPhysicsData[i].velocity # GeneratedAsteroids[i].velocity


\* ---- the AR page: what the last handler that ran was given ----
LastKind == IF arLast = None THEN "none" ELSE Val(arLast).kind
LastPage == Val(arLast).pre
ChangedTo(state) == LastKind = "state" /\ Val(arLast).state = Some(state)

\* C21: the skybox mesh is disabled after every change of the XR state to
\* IN_XR and enabled after every change to NOT_IN_XR, and stays so for as long
\* as the state is IN_XR, respectively NOT_IN_XR, whatever the sequence of
\* sessions entered and left.
C21_SkyboxHiddenInAR ==
    /\ ChangedTo("IN_XR") => ~ar.skyboxMesh.enabled
    /\ ChangedTo("NOT_IN_XR") => ar.skyboxMesh.enabled
    /\ ar.state = "IN_XR" => ~ar.skyboxMesh.enabled
    /\ ar.state = "NOT_IN_XR" => ar.skyboxMesh.enabled

\* a session entered after an earlier change to NOT_IN_XR had shown the skybox
C21_Witness ==
    /\ ChangedTo("IN_XR")
    /\ LastPage.enterARButton.display = "block"
    /\ LastPage.skyboxMesh.enabled
    /\ ~ar.skyboxMesh.enabled

\* C23: in a session, once the root node is anchored to a plane, the addition
\* of a further plane neither moves the root node nor changes anchoredPlaneId,
\* whatever the id of the plane it is anchored to.
C23_AnchorIsSticky ==
    (LastKind = "added" /\ ar.state = "IN_XR" /\ LastPage.anchoredPlaneId # None)
        => /\ ar.anchoredPlaneId = LastPage.anchoredPlaneId
           /\ ar.rootNode.position = LastPage.rootNode.position

\* C24: the handler of a change of the XR state to NOT_IN_XR leaves the root
\* node with scale 1, position (0,0,0) and no rotation quaternion, the scale
\* slider at 1 and anchoredPlaneId null, whatever plane and slider events came
\* before; anchoredPlaneId stays null until a session is entered.
C24_ExitResetsRoot ==
    /\ ChangedTo("NOT_IN_XR")
           => /\ ar.rootNode = [position |-> vec3_create, scaling |-> One,
                                rotationQuaternion |-> None]
              /\ ar.scaleSlider.value = One
              /\ ar.anchoredPlaneId = None
    /\ ar.state = "NOT_IN_XR" => ar.anchoredPlaneId = None

\* a session left while the root was anchored, scaled and away from the origin
C24_Witness ==
    /\ ChangedTo("NOT_IN_XR")
    /\ LastPage.state = "EXITING_XR"
    /\ LastPage.anchoredPlaneId # None
    /\ LastPage.rootNode.scaling # One
    /\ LastPage.scaleSlider.value # One
    /\ LastPage.rootNode.position # vec3_create
    /\ ar.rootNode.scaling = One
    /\ ar.anchoredPlaneId = None


\* ---- the pairwise-gravity scene: the calls of a frame, pair by pair ----
CallsOf(i, j) == SelectSeq(Val(applied), LAMBDA c : c.pair = <<i, j>>)
PairDist(i, j) == vec3_length(vec3_subtract(pbodies[i].position, pbodies[j].position))
PairMag(i, j) ==
    Div(Mul(Mul(G_pairwise, pbodies[i].mass), pbodies[j].mass),
        Mul(PairDist(i, j), PairDist(i, j)))
\* the force of magnitude PairMag(i, j) that points from body i toward body j
Toward(i, j) ==
    vec3_scale(NormalizeBy(vec3_subtract(pbodies[j].position, pbodies[i].position),
                           PairDist(i, j)),
               PairMag(i, j))

\* C25: a frame visits every unordered pair of distinct bodies exactly once,
\* applies nothing for a pair at distance zero and, for any other pair, applies
\* to the two bodies opposite forces of magnitude G*m_i*m_j/dist^2, each
\* pointing from the body it is applied to toward the other body of the pair.
C25_PairwiseAttraction ==
    applied # None =>
        /\ \A k \in 1..Len(Val(applied)) :
               /\ Val(applied)[k].pair[1] \in 1..Len(pbodies)
               /\ Val(applied)[k].pair[2] \in 1..Len(pbodies)
               /\ Val(applied)[k].pair[1] < Val(applied)[k].pair[2]
        /\ \A i, j \in 1..Len(pbodies) :
               i < j =>
                   IF PairDist(i, j) = Zero
                   THEN CallsOf(i, j) = <<>>
                   ELSE /\ Len(CallsOf(i, j)) = 2
                        /\ CallsOf(i, j)[1].body = i
                        /\ CallsOf(i, j)[2].body = j
                        /\ CallsOf(i, j)[2].force = Negate(CallsOf(i, j)[1].force)
                        /\ CallsOf(i, j)[1].force = Toward(i, j)
                        /\ CallsOf(i, j)[2].force = Toward(j, i)

====
